---- MODULE Spec2Model ----
(***************************************************************************)
(* A model of the Assistant repository's two background loops:             *)
(*   - the in-process Task Processor   (src/tasks/processor.py), and       *)
(*   - the realtime-database client and its poller (src/api/firebase.py).  *)
(* The two components share no state, so each has its own specification    *)
(* (SpecTP, SpecCache for the processor; SpecFB, SpecRestart, SpecShutdown *)
(* for the poller) over the                                                *)
(* one set of variables; a specification leaves the other component's      *)
(* variables at their initial values.  The functions whose result depends *)
(* on their arguments alone (payload builders, parameter parsing, the      *)
(* dispatch tables) are operators, applied to bounded inputs by SpecCalls. *)
(***************************************************************************)
EXTENDS Naturals, Integers, Sequences, FiniteSets

\* Python's None, and a key that a dict or a database node does not have
None == "None"
Absent == "<absent>"

(***************************************************************************)
(* Bounds of the model (not program constants).                            *)
(***************************************************************************)
\* add_task calls explored by SpecTP
MaxTasks == 2
\* largest value the wall clock time.time() takes
MaxTime == 1

\* TaskProcessor.__init__: self._max_cache_size = 100
_max_cache_size == 100

\* add_task calls explored by SpecCache: enough to overflow the cache twice
MaxCacheTasks == _max_cache_size + 2

\* add_task_to_computer calls that target this device, explored by SpecFB
MaxRemoteTasks == 2

\* the threads a start_processing call can create (thread identities)
Threads == {"w1", "w2"}
\* task ids the callers of add_task choose from in SpecTP
TaskIds == {"a", "b"}
\* priorities passed to add_task (lower number = sooner)
Priorities == {1, 5}
\* task types passed to add_task: a dispatch key and an unknown type
TaskTypes == {"open_app", "bogus"}
\* the ways a handler invocation can end
Outcomes == {"return", "TaskError", "Exception"}
\* the threads a start_task_polling call can create (thread identities)
PollThreads == {"p1", "p2"}
\* SpecFB explores one live polling thread at a time: a start waits for the
\* thread of the previous start to have ended
OnePoller == {"p1"}
\* task types written by add_task_to_computer: one that main.py registers a
\* handler for, and one nobody registers
RemoteTypes == {"command", "bogus"}
\* the default_handler argument of start_task_polling
DefaultHandlers == {None, "handle_default_task"}


VARIABLES
  task_queue,          \* TaskProcessor.task_queue: the queued task_data dicts
  _processing_active,  \* TaskProcessor._processing_active
  _processing_thread,  \* TaskProcessor._processing_thread
  _results_cache,      \* TaskProcessor._results_cache, in dict insertion order
  worker,              \* each worker thread's position and its local task_data
  now,                 \* time.time()
  nextObj,             \* the number of task_data dicts created so far, plus 1
  device_status,       \* the database: devices/{self}/status
  device_tasks,        \* the database: devices/{self}/tasks, task id -> type
  completed_tasks,     \* the database: completed_tasks/{self}, task id -> result
  _polling_active,     \* Firebase._polling_active
  _polling_thread,     \* Firebase._polling_thread
  _default_handler,    \* Firebase._default_handler
  _task_handlers,      \* Firebase._task_handlers: the types with a handler
  poller,              \* each polling thread's position and locals
  nextTaskId,          \* the next task id add_task_to_computer generates
  dispatches,          \* per task id, how often _handle_task was called (history)
  call,                \* the last call of a function checked on its own:
                       \* its arguments and what it returned or did
  chat_history,        \* AssistantGUI.chat_history, of each of the two GUIs
  request,             \* the last request sent to the chat-completion client
  messages,            \* run_agent_loop: its local list messages
  agent                \* run_agent_loop: its position, calls made and result

tpvars == <<task_queue, _processing_active, _processing_thread,
            _results_cache, worker, now, nextObj>>

fbvars == <<device_status, device_tasks, completed_tasks, _polling_active,
            _polling_thread, _default_handler, _task_handlers, poller,
            nextTaskId, dispatches>>

callvars == <<call>>

appvars == <<chat_history, request, messages, agent>>

vars == <<tpvars, fbvars, callvars, appvars>>

(***************************************************************************)
(* src/tasks/handlers.py: the dispatch table.                              *)
(***************************************************************************)
TASK_HANDLERS ==
  {"send_message", "open_app", "check_email", "send_email",
   "get_info", "run_command", "check_website", "use_cursor"}

get_handler_for_task_type(task_type) ==
  IF task_type \in TASK_HANDLERS THEN task_type ELSE None

(***************************************************************************)
(* src/tasks/processor.py                                                  *)
(***************************************************************************)
\* a task_data dict that has no "result" key yet
NoResult == [error |-> Absent, status |-> Absent, details |-> Absent]

\* add_task's task_data dict.  obj is the identity of the dict; id and type
\* are the caller's.  (params, created_at, started_at and the dict's own
\* copy of priority are written and never read by the processor; they are
\* left out.  The priority the queue sees is the tuple's.)
NewTask(obj, task_id, task_type) ==
  [obj |-> obj, id |-> task_id, type |-> task_type,
   status |-> "pending", completed_at |-> Absent, result |-> NoResult]

\* no task_data dict: a worker between tasks, a dict.get that finds nothing
NoTask == [obj |-> 0]

\* queue.Queue.put: FIFO, appended at the tail
QueuePut(q, item) == Append(q, item)

\* queue.Queue.get on a non-empty queue: the item at the head
QueueGetIndex(q) == 1

RemoveAt(q, i) == [j \in 1..(Len(q) - 1) |-> IF j < i THEN q[j] ELSE q[j + 1]]

\* TaskProcessor.__init__
InitTP ==
  /\ task_queue = <<>>
  /\ _processing_thread = None
  /\ _processing_active = FALSE
  /\ _results_cache = <<>>
  /\ worker = [w \in Threads |-> [pc |-> "none", task |-> NoTask]]
  /\ now = 0
  /\ nextObj = 1

\* The wall clock advances.  The processor reads it only when a handler has
\* ended (completed_at), so its advance is taken while a handler runs.
Tick ==
  /\ now < MaxTime
  /\ \E w \in Threads : worker[w].pc = "exec"
  /\ now' = now + 1
  /\ UNCHANGED <<task_queue, _processing_active, _processing_thread,
                 _results_cache, worker, nextObj>>
  /\ UNCHANGED <<fbvars, callvars, appvars>>

\* the Thread object a start creates: any identity not in use (which one is
\* immaterial, so the first free one is taken)
FreeThreads == {w \in Threads : worker[w].pc \in {"none", "done"}}
NewThread == CHOOSE w \in FreeThreads : TRUE

\* start_processing without its "already running" test
start_processing_unguarded ==
  /\ FreeThreads # {}
  /\ _processing_active' = TRUE
  /\ _processing_thread' = NewThread
  /\ worker' = [worker EXCEPT ![NewThread] = [pc |-> "loop", task |-> NoTask]]
  /\ UNCHANGED <<task_queue, _results_cache, now, nextObj>>
  /\ UNCHANGED <<fbvars, callvars, appvars>>

\* start_processing(): False when already running, else a new daemon thread
start_processing ==
  /\ IF _processing_active
       THEN UNCHANGED <<_processing_active, _processing_thread, worker>>
       ELSE /\ FreeThreads # {}
            /\ _processing_active' = TRUE
            /\ _processing_thread' = NewThread
            /\ worker' = [worker EXCEPT ![NewThread] = [pc |-> "loop", task |-> NoTask]]
  /\ UNCHANGED <<task_queue, _results_cache, now, nextObj>>
  /\ UNCHANGED <<fbvars, callvars, appvars>>

\* stop_processing(): False when not running; else clears the flag, waits
\* at most one second for the thread (the wait changes no state) and forgets it
stop_processing ==
  /\ IF ~_processing_active
       THEN UNCHANGED <<_processing_active, _processing_thread>>
       ELSE /\ _processing_active' = FALSE
            /\ _processing_thread' = None
  /\ UNCHANGED <<task_queue, _results_cache, worker, now, nextObj>>
  /\ UNCHANGED <<fbvars, callvars, appvars>>

\* add_task(task_id, task_type, params, priority): the queue item is the
\* tuple (priority, task_data)
add_task(task_id, task_type, priority) ==
  /\ task_queue' = QueuePut(task_queue,
                            [priority |-> priority,
                             task_data |-> NewTask(nextObj, task_id, task_type)])
  /\ nextObj' = nextObj + 1
  /\ UNCHANGED <<_processing_active, _processing_thread, _results_cache, worker, now>>
  /\ UNCHANGED <<fbvars, callvars, appvars>>

\* the place of key task_id in the cache, 0 when it is not a key
CacheIndex(cache, task_id) ==
  IF \E i \in 1..Len(cache) : cache[i].id = task_id
    THEN CHOOSE i \in 1..Len(cache) : cache[i].id = task_id
    ELSE 0

\* get_task_result: self._results_cache.get(task_id), NoTask for None
get_task_result(task_id) ==
  IF CacheIndex(_results_cache, task_id) = 0
    THEN NoTask
    ELSE _results_cache[CacheIndex(_results_cache, task_id)]

\* _execute_task without its "except Exception" clause
_execute_task_uncaught(task_type, outcome) ==
  IF get_handler_for_task_type(task_type) = None
    THEN [raised |-> FALSE,
          value |-> [error |-> "No handler for task type", status |-> "failed",
                     details |-> Absent]]
    ELSE CASE outcome = "return" ->
                [raised |-> FALSE,
                 value |-> [error |-> Absent, status |-> "handler result",
                            details |-> Absent]]
           [] outcome = "TaskError" ->
                [raised |-> FALSE,
                 value |-> [error |-> "TaskError", status |-> "failed",
                            details |-> "details"]]
           [] outcome = "Exception" ->
                [raised |-> TRUE, value |-> NoResult]

\* _execute_task: the handler's outcome turned into a value.  raised is TRUE
\* when an exception leaves _execute_task.
_execute_task(task_type, outcome) ==
  IF get_handler_for_task_type(task_type) = None
    THEN [raised |-> FALSE,
          value |-> [error |-> "No handler for task type", status |-> "failed",
                     details |-> Absent]]
    ELSE CASE outcome = "return" ->
                [raised |-> FALSE,
                 value |-> [error |-> Absent, status |-> "handler result",
                            details |-> Absent]]
           [] outcome = "TaskError" ->
                [raised |-> FALSE,
                 value |-> [error |-> "TaskError", status |-> "failed",
                            details |-> "details"]]
           [] outcome = "Exception" ->
                [raised |-> FALSE,
                 value |-> [error |-> "Exception", status |-> "failed",
                            details |-> Absent]]

\* the sort with reverse=True: newest first
SortRank_newest_first(cache, i) ==
  Cardinality({j \in 1..Len(cache) :
                 \/ cache[j].completed_at > cache[i].completed_at
                 \/ /\ cache[j].completed_at = cache[i].completed_at
                    /\ j > i})

\* sorted(keys, key=completed_at): the position of entry i in the stable sort
SortRank(cache, i) ==
  Cardinality({j \in 1..Len(cache) :
                 \/ cache[j].completed_at < cache[i].completed_at
                 \/ /\ cache[j].completed_at = cache[i].completed_at
                    /\ j < i})

\* oldest_keys[:len(oldest_keys) - max]: the keys the trim deletes
EvictedKeys(cache) ==
  {cache[i].id : i \in {j \in 1..Len(cache) :
                          SortRank(cache, j) < Len(cache) - _max_cache_size}}

\* del self._results_cache[key] for each of them; the others keep their order
DeleteKeys(cache, keys) == SelectSeq(cache, LAMBDA r : r.id \notin keys)

\* self._results_cache[task_id] = result: in place for a key already there
CacheStore(cache, task_id, record) ==
  IF CacheIndex(cache, task_id) = 0
    THEN Append(cache, record)
    ELSE [cache EXCEPT ![CacheIndex(cache, task_id)] = record]

\* _cache_result without the trim
_cache_result_untrimmed(cache, task_id, record) ==
  CacheStore(cache, task_id, record)

_cache_result(cache, task_id, record) ==
  LET stored == CacheStore(cache, task_id, record)
  IN IF Len(stored) > _max_cache_size
       THEN DeleteKeys(stored, EvictedKeys(stored))
       ELSE stored

\* the loop test failing whatever the flag: the thread ends
WorkerLoop_exits(w) ==
  /\ worker[w].pc = "loop"
  /\ worker' = [worker EXCEPT ![w].pc = "done"]
  /\ UNCHANGED <<task_queue, _processing_active, _processing_thread,
                 _results_cache, now, nextObj>>
  /\ UNCHANGED <<fbvars, callvars, appvars>>

\* _process_tasks_worker: while self._processing_active
WorkerLoop(w) ==
  /\ worker[w].pc = "loop"
  /\ worker' = [worker EXCEPT ![w].pc =
                  IF _processing_active THEN "get" ELSE "done"]
  /\ UNCHANGED <<task_queue, _processing_active, _processing_thread,
                 _results_cache, now, nextObj>>
  /\ UNCHANGED <<fbvars, callvars, appvars>>

\* the dequeue without task_data["status"] = "processing"
WorkerGet_keeps_pending(w) ==
  /\ worker[w].pc = "get"
  /\ task_queue # <<>>
  /\ worker' = [worker EXCEPT ![w] = [pc |-> "exec", task |-> task_queue[1].task_data]]
  /\ task_queue' = Tail(task_queue)
  /\ UNCHANGED <<_processing_active, _processing_thread, _results_cache, now, nextObj>>
  /\ UNCHANGED <<fbvars, callvars, appvars>>

\* task_queue.get(timeout=1.0) returns a task; it is marked processing
WorkerGet(w) ==
  /\ worker[w].pc = "get"
  /\ task_queue # <<>>
  /\ LET i == QueueGetIndex(task_queue)
     IN /\ worker' = [worker EXCEPT ![w] =
                        [pc |-> "exec",
                         task |-> [task_queue[i].task_data
                                    EXCEPT !.status = "processing"]]]
        /\ task_queue' = RemoveAt(task_queue, i)
  /\ UNCHANGED <<_processing_active, _processing_thread, _results_cache, now, nextObj>>
  /\ UNCHANGED <<fbvars, callvars, appvars>>

\* task_queue.get(timeout=1.0) raises queue.Empty
WorkerGetEmpty(w) ==
  /\ worker[w].pc = "get"
  /\ task_queue = <<>>
  /\ worker' = [worker EXCEPT ![w].pc = "loop"]
  /\ UNCHANGED <<task_queue, _processing_active, _processing_thread,
                 _results_cache, now, nextObj>>
  /\ UNCHANGED <<fbvars, callvars, appvars>>

\* the handler ends; the task is marked completed and cached, or, if an
\* exception left _execute_task, the loop's except clause logs it
WorkerExecute(w, outcome) ==
  /\ worker[w].pc = "exec"
  /\ LET task == worker[w].task
         res == _execute_task(task.type, outcome)
         done == [task EXCEPT !.status = "completed",
                              !.completed_at = now,
                              !.result = res.value]
     IN /\ _results_cache' =
             IF res.raised THEN _results_cache
             ELSE _cache_result(_results_cache, task.id, done)
        /\ worker' = [worker EXCEPT ![w] = [pc |-> "loop", task |-> NoTask]]
  /\ UNCHANGED <<task_queue, _processing_active, _processing_thread, now, nextObj>>
  /\ UNCHANGED <<fbvars, callvars, appvars>>

WorkerStep ==
  \E w \in Threads :
    \/ WorkerLoop(w)
    \/ WorkerGet(w)
    \/ WorkerGetEmpty(w)
    \/ \E outcome \in Outcomes : WorkerExecute(w, outcome)

(***************************************************************************)
(* src/api/firebase.py: the realtime-database client and its poller.       *)
(* The database is the device's own record and its completed_tasks         *)
(* collection.  Every request is one step; a request may fail (network or  *)
(* HTTP error), and _make_request then raises FirebaseError.               *)
(***************************************************************************)
RemoteIds == 1..MaxRemoteTasks

NoTasks == [id \in {} |-> None]

NoCur == [id |-> 0, type |-> None]

\* complete_task's result argument
NoPayload == [error |-> Absent, arg |-> Absent, status |-> Absent]
\* what a handler returns
HandlerResult == [error |-> Absent, arg |-> Absent, status |-> "handler result"]
\* {"error": str(e), "status": "failed"}
FailedPayload == [error |-> "str(e)", arg |-> Absent, status |-> "failed"]
\* {"error": f"No handler for task type: {task_type}", "status": "rejected"}
RejectedPayload(task_type) ==
  [error |-> "No handler for task type", arg |-> task_type, status |-> "rejected"]

IdlePoller ==
  [pc |-> "none", rest |-> <<>>, cur |-> NoCur, payload |-> NoPayload,
   branch |-> "none", inTry |-> FALSE, cause |-> "none", err |-> FALSE]

\* Firebase.__init__, on an empty database
InitFB ==
  /\ device_status = Absent
  /\ device_tasks = NoTasks
  /\ completed_tasks = NoTasks
  /\ _polling_thread = None
  /\ _polling_active = FALSE
  /\ _default_handler = None
  /\ _task_handlers = {}
  /\ poller = [p \in PollThreads |-> IdlePoller]
  /\ nextTaskId = 1
  /\ dispatches = [id \in RemoteIds |-> 0]

\* PUT devices/{self} with update_status's data: the record is replaced, and
\* with it the tasks map ({} for "on", null for "off": no tasks either way)
PutStatus(status) ==
  /\ device_status' = status
  /\ device_tasks' = NoTasks

\* update_status(status) called by the application: at startup ("on") and at
\* shutdown ("off"); the request succeeds or raises
update_status(status, ok) ==
  /\ device_status # status
  /\ IF ok THEN PutStatus(status) ELSE UNCHANGED <<device_status, device_tasks>>
  /\ UNCHANGED <<completed_tasks, _polling_active, _polling_thread, _default_handler,
                 _task_handlers, poller, nextTaskId, dispatches>>
  /\ UNCHANGED <<tpvars, callvars, appvars>>

\* add_task_to_computer(self, task_type, ...) called on any machine: PATCH
\* devices/{self}/tasks with a new task id
add_task_to_computer(task_type) ==
  /\ nextTaskId <= MaxRemoteTasks
  /\ device_tasks' = [id \in DOMAIN device_tasks \cup {nextTaskId} |->
                        IF id = nextTaskId THEN task_type ELSE device_tasks[id]]
  /\ nextTaskId' = nextTaskId + 1
  /\ UNCHANGED <<device_status, completed_tasks, _polling_active, _polling_thread,
                 _default_handler, _task_handlers, poller, dispatches>>
  /\ UNCHANGED <<tpvars, callvars, appvars>>

\* register_task_handler(task_type, handler_function)
register_task_handler(task_type) ==
  /\ _task_handlers' = _task_handlers \cup {task_type}
  /\ UNCHANGED <<device_status, device_tasks, completed_tasks, _polling_active,
                 _polling_thread, _default_handler, poller, nextTaskId, dispatches>>
  /\ UNCHANGED <<tpvars, callvars, appvars>>

\* the Thread object a start creates: the first identity of the pool that
\* is not in use
FreePollThreads(pool) == {p \in pool : poller[p].pc \in {"none", "done"}}
NewPollThread(pool) == CHOOSE p \in FreePollThreads(pool) : TRUE

\* start_task_polling(interval, default_handler), its thread taken from pool
start_task_polling(default_handler, pool) ==
  /\ IF _polling_active
       THEN UNCHANGED <<_polling_active, _polling_thread, _default_handler, poller>>
       ELSE /\ FreePollThreads(pool) # {}
            /\ _polling_active' = TRUE
            /\ _default_handler' = default_handler
            /\ _polling_thread' = NewPollThread(pool)
            /\ poller' = [poller EXCEPT ![NewPollThread(pool)] =
                            [IdlePoller EXCEPT !.pc = "loop"]]
  /\ UNCHANGED <<device_status, device_tasks, completed_tasks, _task_handlers,
                 nextTaskId, dispatches>>
  /\ UNCHANGED <<tpvars, callvars, appvars>>

\* stop_task_polling(): clears the flag, waits at most one second for the
\* thread (the wait changes no state) and forgets it
stop_task_polling ==
  /\ IF ~_polling_active
       THEN UNCHANGED <<_polling_active, _polling_thread>>
       ELSE /\ _polling_active' = FALSE
            /\ _polling_thread' = None
  /\ UNCHANGED <<device_status, device_tasks, completed_tasks, _default_handler,
                 _task_handlers, poller, nextTaskId, dispatches>>
  /\ UNCHANGED <<tpvars, callvars, appvars>>

\* _poll_tasks_worker: while self._polling_active (after the sleep loop,
\* which reads the same flag)
PollLoop(p) ==
  /\ poller[p].pc = "loop"
  /\ poller' = [poller EXCEPT ![p].pc =
                  IF _polling_active THEN "fetch" ELSE "done"]
  /\ UNCHANGED <<device_status, device_tasks, completed_tasks, _polling_active,
                 _polling_thread, _default_handler, _task_handlers, nextTaskId,
                 dispatches>>
  /\ UNCHANGED <<tpvars, callvars, appvars>>

\* the orders in which a GET can list the tasks map
TaskOrders(tasks) ==
  {order \in [1..Cardinality(DOMAIN tasks) -> DOMAIN tasks] :
     \A i, j \in DOMAIN order : i # j => order[i] # order[j]}

\* tasks = self.get_tasks(): a snapshot of the tasks map, or FirebaseError,
\* which the loop's outer except clause logs
PollFetch(p, ok) ==
  /\ poller[p].pc = "fetch"
  /\ IF ok
       THEN \E order \in TaskOrders(device_tasks) :
              poller' = [poller EXCEPT
                ![p].rest = [i \in DOMAIN order |->
                               [id |-> order[i], type |-> device_tasks[order[i]]]],
                ![p].pc = IF order = <<>> THEN "status" ELSE "handle"]
       ELSE poller' = [poller EXCEPT ![p].pc = "loop"]
  /\ UNCHANGED <<device_status, device_tasks, completed_tasks, _polling_active,
                 _polling_thread, _default_handler, _task_handlers, nextTaskId,
                 dispatches>>
  /\ UNCHANGED <<tpvars, callvars, appvars>>

\* _handle_task with "else" in place of "elif self._default_handler"
HandlerBranch_default_unchecked(task_type) ==
  IF task_type \in _task_handlers THEN "registered" ELSE "default"

\* _handle_task testing the default handler before the registered one
HandlerBranch_default_first(task_type) ==
  IF _default_handler # None THEN "default"
  ELSE IF task_type \in _task_handlers THEN "registered"
  ELSE "rejected"

\* _handle_task: which of its three branches a task type takes
HandlerBranch(task_type) ==
  IF task_type \in _task_handlers THEN "registered"
  ELSE IF _default_handler # None THEN "default"
  ELSE "rejected"

\* for task_id, task_data in tasks.items(): self._handle_task(task_id, task_data)
\* up to the handler call, or to the complete_task call of a rejection
PollHandle(p) ==
  /\ poller[p].pc = "handle"
  /\ LET task == Head(poller[p].rest)
         branch == HandlerBranch(task.type)
     IN /\ poller' = [poller EXCEPT ![p] =
               [pc |-> IF branch = "rejected" THEN "delete" ELSE "handler",
                rest |-> Tail(poller[p].rest),
                cur |-> task,
                payload |-> IF branch = "rejected" THEN RejectedPayload(task.type)
                            ELSE NoPayload,
                branch |-> branch,
                inTry |-> FALSE,
                cause |-> "none",
                err |-> FALSE]]
        /\ dispatches' = [dispatches EXCEPT ![task.id] =
                            IF @ < 2 THEN @ + 1 ELSE @]
  /\ UNCHANGED <<device_status, device_tasks, completed_tasks, _polling_active,
                 _polling_thread, _default_handler, _task_handlers, nextTaskId>>
  /\ UNCHANGED <<tpvars, callvars, appvars>>

\* _handle_task is over: the next task of the cycle, or the status update.
\* err: the exception reached the loop's "Error handling task" clause.
TaskEnded(state, err) ==
  [state EXCEPT !.pc = IF state.rest # <<>> THEN "handle" ELSE "status",
                !.cur = NoCur, !.payload = NoPayload, !.branch = "none",
                !.inTry = FALSE, !.cause = "none", !.err = err]

\* a request of complete_task raised FirebaseError: inside the try it is
\* caught like a handler's exception, and complete_task is called with
\* error_data; anywhere else it leaves _handle_task
RequestFailed(state) ==
  IF state.inTry
    THEN [state EXCEPT !.pc = "delete", !.payload = FailedPayload, !.inTry = FALSE]
    ELSE TaskEnded(state, TRUE)

\* the handler call without its except clause: the handler's exception
\* leaves _handle_task
PollHandlerEnds_uncaught(p, raised) ==
  /\ poller[p].pc = "handler"
  /\ poller' = [poller EXCEPT ![p] =
       IF raised THEN TaskEnded(poller[p], TRUE)
       ELSE [poller[p] EXCEPT !.pc = "delete", !.payload = HandlerResult,
                              !.inTry = TRUE, !.cause = "returned"]]
  /\ UNCHANGED <<device_status, device_tasks, completed_tasks, _polling_active,
                 _polling_thread, _default_handler, _task_handlers, nextTaskId,
                 dispatches>>
  /\ UNCHANGED <<tpvars, callvars, appvars>>

\* the handler returns (complete_task(task_id, result), inside the try) or
\* raises (complete_task(task_id, error_data), inside the except clause)
PollHandlerEnds(p, raised) ==
  /\ poller[p].pc = "handler"
  /\ poller' = [poller EXCEPT
       ![p].pc = "delete",
       ![p].payload = IF raised THEN FailedPayload ELSE HandlerResult,
       ![p].inTry = ~raised,
       ![p].cause = IF raised THEN "raised" ELSE "returned"]
  /\ UNCHANGED <<device_status, device_tasks, completed_tasks, _polling_active,
                 _polling_thread, _default_handler, _task_handlers, nextTaskId,
                 dispatches>>
  /\ UNCHANGED <<tpvars, callvars, appvars>>

\* complete_task: DELETE devices/{self}/tasks/{task_id}
PollDelete(p, ok) ==
  /\ poller[p].pc = "delete"
  /\ IF ok
       THEN /\ device_tasks' = [id \in DOMAIN device_tasks \ {poller[p].cur.id} |->
                                  device_tasks[id]]
            /\ poller' = [poller EXCEPT ![p].pc = "put"]
       ELSE /\ poller' = [poller EXCEPT ![p] = RequestFailed(poller[p])]
            /\ UNCHANGED device_tasks
  /\ UNCHANGED <<device_status, completed_tasks, _polling_active, _polling_thread,
                 _default_handler, _task_handlers, nextTaskId, dispatches>>
  /\ UNCHANGED <<tpvars, callvars, appvars>>

\* complete_task: PUT completed_tasks/{self}/{task_id} = {result, completed_at}
PollPut(p, ok) ==
  /\ poller[p].pc = "put"
  /\ IF ok
       THEN /\ completed_tasks' =
                 [id \in DOMAIN completed_tasks \cup {poller[p].cur.id} |->
                    IF id = poller[p].cur.id THEN poller[p].payload
                    ELSE completed_tasks[id]]
            /\ poller' = [poller EXCEPT ![p] = TaskEnded(poller[p], FALSE)]
       ELSE /\ poller' = [poller EXCEPT ![p] = RequestFailed(poller[p])]
            /\ UNCHANGED completed_tasks
  /\ UNCHANGED <<device_status, device_tasks, _polling_active, _polling_thread,
                 _default_handler, _task_handlers, nextTaskId, dispatches>>
  /\ UNCHANGED <<tpvars, callvars, appvars>>

\* self.update_status("on") at the end of the cycle; a failure is logged by
\* the outer except clause
PollStatus(p, ok) ==
  /\ poller[p].pc = "status"
  /\ IF ok THEN PutStatus("on") ELSE UNCHANGED <<device_status, device_tasks>>
  /\ poller' = [poller EXCEPT ![p].pc = "loop", ![p].err = FALSE]
  /\ UNCHANGED <<completed_tasks, _polling_active, _polling_thread,
                 _default_handler, _task_handlers, nextTaskId, dispatches>>
  /\ UNCHANGED <<tpvars, callvars, appvars>>

PollStep ==
  \E p \in PollThreads :
    \/ PollLoop(p)
    \/ \E ok \in BOOLEAN : PollFetch(p, ok)
    \/ PollHandle(p)
    \/ \E raised \in BOOLEAN : PollHandlerEnds(p, raised)
    \/ \E ok \in BOOLEAN : PollDelete(p, ok)
    \/ \E ok \in BOOLEAN : PollPut(p, ok)
    \/ \E ok \in BOOLEAN : PollStatus(p, ok)

NextFB ==
  \/ \E status \in {"on", "off"}, ok \in BOOLEAN : update_status(status, ok)
  \/ \E task_type \in RemoteTypes : add_task_to_computer(task_type)
  \/ \E task_type \in {"command"} : register_task_handler(task_type)
  \/ \E default_handler \in DefaultHandlers :
       start_task_polling(default_handler, OnePoller)
  \/ stop_task_polling
  \/ PollStep

\* no call yet
NoCall == [op |-> "none"]

InitCalls == call = NoCall

\* the two chat GUIs: the one of src/main.py and the one of src/ui/gui.py
GUIs == {"main.py", "ui/gui.py"}
\* a chat_history entry
Entry(role, content) == [role |-> role, content |-> content, image |-> FALSE]
Greeting == "Hello! Ready when you are."
NoRequest == [n |-> 0]
IdleAgent == [pc |-> "idle", calls |-> 0, result |-> None,
              response |-> [stop_reason |-> "APIError", content |-> <<>>]]

\* AssistantGUI.__init__: chat_history = [], and _display_greeting of
\* ui/gui.py shows its greeting with display_message, which records it
InitApp ==
  /\ chat_history = [gui \in GUIs |->
                       IF gui = "ui/gui.py"
                         THEN <<Entry("assistant", Greeting)>> ELSE <<>>]
  /\ request = NoRequest
  /\ messages = <<>>
  /\ agent = IdleAgent

Init == InitTP /\ InitFB /\ InitCalls /\ InitApp

SpecFB == Init /\ [][NextFB]_vars

(***************************************************************************)
(* The specifications of the Task Processor.                               *)
(***************************************************************************)
AddTaskTP ==
  /\ nextObj <= MaxTasks
  /\ \E task_id \in TaskIds, task_type \in TaskTypes, priority \in Priorities :
       add_task(task_id, task_type, priority)

NextTP ==
  \/ Tick
  \/ start_processing
  \/ stop_processing
  \/ AddTaskTP
  \/ WorkerStep

SpecTP == Init /\ [][NextTP]_vars

(***************************************************************************)
(* SpecCache: the processor fed more distinct task ids than the cache      *)
(* holds.  One caller adds tasks with fresh ids, one at a time, and every  *)
(* handler returns normally.                                               *)
(***************************************************************************)
AddTaskCache ==
  /\ nextObj <= MaxCacheTasks
  /\ task_queue = <<>>
  /\ add_task(nextObj, "open_app", 1)

WorkerStepCache ==
  \E w \in Threads :
    \/ WorkerLoop(w)
    \/ WorkerGet(w)
    \/ WorkerGetEmpty(w)
    \/ WorkerExecute(w, "return")

\* The trim compares completed_at values only once the cache is full: the
\* entries completed before that all carry the clock's first value.
TickCache ==
  /\ Len(_results_cache) >= _max_cache_size - 1
  /\ Tick

NextCache ==
  \/ TickCache
  \/ (~_processing_active /\ start_processing)
  \/ AddTaskCache
  \/ WorkerStepCache

SpecCache == Init /\ [][NextCache]_vars

(***************************************************************************)
(* Where a task_data dict is, and what its status says.                    *)
(***************************************************************************)
Objs == 1..(nextObj - 1)

QueueIndex(o) ==
  IF \E i \in 1..Len(task_queue) : task_queue[i].task_data.obj = o
    THEN CHOOSE i \in 1..Len(task_queue) : task_queue[i].task_data.obj = o
    ELSE 0
InQueue(o) == QueueIndex(o) # 0
InWorker(o) == \E w \in Threads : worker[w].task.obj = o
InCache(o) == \E i \in 1..Len(_results_cache) : _results_cache[i].obj = o

RecordOf(o) ==
  IF InQueue(o)
    THEN task_queue[QueueIndex(o)].task_data
  ELSE IF InWorker(o)
    THEN worker[CHOOSE w \in Threads : worker[w].task.obj = o].task
  ELSE IF InCache(o)
    THEN _results_cache[CHOOSE i \in 1..Len(_results_cache) :
                          _results_cache[i].obj = o]
  ELSE [obj |-> o, status |-> "gone"]

StatusOf(o) == RecordOf(o).status

\* the payloads _execute_task builds or passes on
FailurePayloads ==
  {[error |-> e, status |-> "failed", details |-> d] :
     e \in {"No handler for task type", "TaskError", "Exception"},
     d \in {Absent, "details"}}
HandlerResults == {[error |-> Absent, status |-> "handler result", details |-> Absent]}

(***************************************************************************)
(* C1: every dequeue takes the task of the lowest priority number in the   *)
(* queue, and among several of that priority the one inserted first.       *)
(***************************************************************************)
PriorityHead(q, i) ==
  \A j \in 1..Len(q) :
     \/ q[j].priority > q[i].priority
     \/ q[j].priority = q[i].priority /\ q[j].task_data.obj >= q[i].task_data.obj

C1_PriorityOrder ==
  [][\A w \in Threads :
       (worker[w].pc = "get" /\ worker'[w].pc = "exec")
         => PriorityHead(task_queue, QueueIndex(worker'[w].task.obj))]_vars

(***************************************************************************)
(* C3: whatever the handler does (returns, raises a task error, raises     *)
(* anything else, or does not exist), the worker thread goes on with its   *)
(* loop and the dequeued task is in the result cache, completed, with the  *)
(* outcome as its result payload; a worker thread ends only once           *)
(* processing is no longer active.                                         *)
(***************************************************************************)
C3_WorkerNeverDies ==
  [][\A w \in Threads :
       /\ (worker[w].pc = "exec" /\ worker'[w] # worker[w]) =>
            /\ worker'[w].pc = "loop"
            /\ \E i \in 1..Len(_results_cache') :
                 LET r == _results_cache'[i]
                 IN /\ r.obj = worker[w].task.obj
                    /\ r.id = worker[w].task.id
                    /\ r.status = "completed"
                    /\ r.result \in FailurePayloads \cup HandlerResults
                    /\ (r.type \notin TASK_HANDLERS) =>
                         (r.result.error = "No handler for task type")
       /\ (worker[w].pc # "done" /\ worker'[w].pc = "done") =>
            ~_processing_active]_vars

C3_Witness ==
  /\ \E i \in 1..Len(_results_cache) : _results_cache[i].result.error = "Exception"
  /\ \E i \in 1..Len(_results_cache) :
       _results_cache[i].result.error = "No handler for task type"
  /\ \E w \in Threads : worker[w].pc \in {"loop", "get"}

(***************************************************************************)
(* C7: the result cache never holds more than _max_cache_size entries.     *)
(***************************************************************************)
C7_CacheBound == Len(_results_cache) <= _max_cache_size

\* a full cache from which an entry has been evicted
C7_Witness ==
  /\ Len(_results_cache) = _max_cache_size
  /\ \E i \in 1..Len(_results_cache) : _results_cache[i].obj > _max_cache_size

(***************************************************************************)
(* C8: once more tasks (of distinct ids) have completed than the cache     *)
(* holds, the cache holds exactly the _max_cache_size tasks completed      *)
(* last, the last one among them, and none of them has a completed_at      *)
(* older than a task completed before it.                                  *)
(***************************************************************************)
\* in SpecCache tasks complete in the order they were added
CompletedCount ==
  nextObj - 1 - Len(task_queue) - Cardinality({w \in Threads : worker[w].pc = "exec"})

C8_EvictionOrder ==
  /\ CompletedCount > _max_cache_size =>
       /\ {_results_cache[i].id : i \in 1..Len(_results_cache)} =
            (CompletedCount - _max_cache_size + 1)..CompletedCount
       /\ get_task_result(CompletedCount) # NoTask
  /\ \A i, j \in 1..Len(_results_cache) :
       _results_cache[i].id < _results_cache[j].id =>
         _results_cache[i].completed_at <= _results_cache[j].completed_at

\* two evictions have happened, among entries that do not all tie
C8_Witness ==
  /\ CompletedCount = _max_cache_size + 2
  /\ \E i, j \in 1..Len(_results_cache) :
       _results_cache[i].completed_at < _results_cache[j].completed_at

(***************************************************************************)
(* C9: a task record's status only moves pending -> processing ->          *)
(* completed; a completed record keeps that status until the cache drops   *)
(* it; there is no other status, and a failed task is a completed record   *)
(* whose result carries an error key.                                      *)
(***************************************************************************)
StatusStep(old, new) ==
  \/ new = old
  \/ old = "pending" /\ new = "processing"
  \/ old = "processing" /\ new = "completed"
  \/ old = "completed" /\ new = "gone"

C9_StatusMachine ==
  [][\A o \in Objs' :
       LET new == RecordOf(o)'
       IN /\ (o \in Objs) => StatusStep(StatusOf(o), new.status)
          /\ (o \notin Objs) => new.status = "pending"
          /\ \/ new.status \in {"pending", "processing"} /\ new.result = NoResult
             \/ new.status = "completed" /\
                  new.result \in FailurePayloads \cup HandlerResults
             \/ new.status = "gone"]_vars

\* a failed task: completed, with an error in its result
C9_Witness ==
  \E o \in Objs :
    /\ StatusOf(o) = "completed"
    /\ RecordOf(o).result.error = "TaskError"

(***************************************************************************)
(* C10: get_task_result(id) returns a record only when the task last added *)
(* under that id has completed; while that task is pending or processing   *)
(* it returns no-value.                                                     *)
(***************************************************************************)
C10_ResultVisibility ==
  \A task_id \in TaskIds :
    LET r == get_task_result(task_id)
    IN r # NoTask =>
         /\ r.status = "completed"
         /\ r.result # NoResult
         /\ ~\E o \in Objs :
               /\ o > r.obj
               /\ StatusOf(o) \in {"pending", "processing"}
               /\ RecordOf(o).id = task_id

(***************************************************************************)
(* C2: while the device is on, a task leaves devices/{self}/tasks only     *)
(* through the DELETE of complete_task, issued by the poller for a task    *)
(* it has dispatched.                                                      *)
(***************************************************************************)
C2_TaskLeavesOnlyWhenCompleted ==
  [][\A id \in DOMAIN device_tasks :
       (device_status = "on" /\ device_status' = "on" /\ id \notin DOMAIN device_tasks')
         => /\ dispatches[id] > 0
            /\ \E p \in PollThreads :
                 poller[p].pc = "delete" /\ poller[p].cur.id = id]_vars

(***************************************************************************)
(* C4: a fetched task whose type has neither a registered handler nor a    *)
(* default handler goes straight to complete_task with the rejected        *)
(* payload naming its type, no handler being called; and when the          *)
(* database accepts complete_task's requests the task is out of the tasks  *)
(* map and the rejected payload is its completed record.                   *)
(***************************************************************************)
C4_Rejection ==
  [][\A p \in PollThreads :
       /\ (/\ poller[p].pc = "handle"
           /\ poller'[p] # poller[p]
           /\ Head(poller[p].rest).type \notin _task_handlers
           /\ _default_handler = None)
          => /\ poller'[p].pc = "delete"
             /\ poller'[p].cur = Head(poller[p].rest)
             /\ poller'[p].payload = RejectedPayload(poller'[p].cur.type)
             /\ poller'[p].branch = "rejected"
       /\ (/\ poller[p].branch = "rejected"
           /\ poller'[p] # poller[p])
          => /\ poller'[p].pc # "handler"
             /\ (poller[p].pc = "delete" /\ poller'[p].pc = "put")
                  => poller[p].cur.id \notin DOMAIN device_tasks'
             /\ (poller[p].pc = "put" /\ ~poller'[p].err)
                  => /\ poller[p].cur.id \notin DOMAIN device_tasks'
                     /\ poller[p].cur.id \in DOMAIN completed_tasks'
                     /\ completed_tasks'[poller[p].cur.id] =
                          RejectedPayload(poller[p].cur.type)]_vars

\* a rejected task, gone from the tasks map
C4_Witness ==
  \E id \in DOMAIN completed_tasks :
    /\ completed_tasks[id].status = "rejected"
    /\ id \notin DOMAIN device_tasks
    /\ device_status = "on"

(***************************************************************************)
(* C5: when a handler (registered or default) raises, complete_task is     *)
(* called for that task with the failed payload; when the database accepts *)
(* its requests the task is out of the tasks map and the failed payload is *)
(* its completed record; and whether or not it does, the poller goes on    *)
(* with the next task of the cycle.                                        *)
(***************************************************************************)
C5_FailureCapture ==
  [][\A p \in PollThreads :
       /\ (poller[p].pc = "handler" /\ poller'[p] # poller[p])
          => /\ poller'[p].pc = "delete"
             /\ poller'[p].cause \in {"returned", "raised"}
       /\ (poller[p].pc = "handler" /\ poller'[p].cause = "raised")
          => /\ poller'[p].pc = "delete"
             /\ poller'[p].cur = poller[p].cur
             /\ poller'[p].payload = FailedPayload
             /\ poller'[p].rest = poller[p].rest
       /\ (poller[p].cause = "raised" /\ poller'[p] # poller[p])
          => /\ poller'[p].pc \in {"put", "handle", "status"}
             /\ poller'[p].rest = poller[p].rest
             /\ (poller'[p].pc = "put") => poller[p].cur.id \notin DOMAIN device_tasks'
             /\ (poller[p].pc = "put" /\ ~poller'[p].err)
                  => /\ poller[p].cur.id \notin DOMAIN device_tasks'
                     /\ poller[p].cur.id \in DOMAIN completed_tasks'
                     /\ completed_tasks'[poller[p].cur.id] = FailedPayload
             /\ (poller'[p].pc # "put")
                  => poller'[p].pc =
                       IF poller[p].rest # <<>> THEN "handle" ELSE "status"]_vars

\* a handler raised on the first task of a cycle of two; the failed record
\* is stored and the poller is in the second task's handler
C5_Witness ==
  \E p \in PollThreads :
    /\ poller[p].pc = "handler"
    /\ \E id \in DOMAIN completed_tasks :
         /\ completed_tasks[id] = FailedPayload
         /\ id # poller[p].cur.id
         /\ id \notin DOMAIN device_tasks

(***************************************************************************)
(* C6: a poll cycle, once started, ends only after its                     *)
(* update_status("on") call.                                               *)
(***************************************************************************)
C6_CycleEndsWithStatus ==
  [][\A p \in PollThreads :
       (poller[p].pc \notin {"none", "done", "loop"} /\ poller'[p].pc = "loop")
         => poller[p].pc = "status"]_vars

(***************************************************************************)
(* SpecRestart: the poller stopped and started again at any moment, a      *)
(* start taking a new thread while the thread of an earlier start may      *)
(* still be alive (stop_task_polling waits for it one second at most).     *)
(* Every request succeeds and every task goes to the default handler,      *)
(* which returns.                                                          *)
(***************************************************************************)
PollStepOk ==
  \E p \in PollThreads :
    \/ PollLoop(p)
    \/ PollFetch(p, TRUE)
    \/ PollHandle(p)
    \/ PollHandlerEnds(p, FALSE)
    \/ PollDelete(p, TRUE)
    \/ PollPut(p, TRUE)
    \/ PollStatus(p, TRUE)

NextRestart ==
  \/ add_task_to_computer("command")
  \/ start_task_polling("handle_default_task", PollThreads)
  \/ stop_task_polling
  \/ PollStepOk

SpecRestart == Init /\ [][NextRestart]_vars

(***************************************************************************)
(* C11: at most one polling worker executes the poll loop: a thread begins *)
(* a poll cycle only while it is the client's current polling thread and   *)
(* no other thread is in a cycle it began after that thread was started.   *)
(* (A thread whose stop was requested may finish the cycle it is in; it    *)
(* begins no other.)                                                       *)
(***************************************************************************)
C11_SinglePoller ==
  [][\A p \in PollThreads :
       (poller[p].pc = "loop" /\ poller'[p].pc = "fetch")
         => _polling_thread = p]_vars

(***************************************************************************)
(* C12: at most one worker thread dequeues tasks and writes the result     *)
(* cache: a thread goes on to a dequeue only while it is the processor's   *)
(* current worker thread.  (A thread whose stop was requested may finish   *)
(* the task it is executing; it takes no other.)                           *)
(***************************************************************************)
C12_SingleWriter ==
  [][\A w \in Threads :
       (worker[w].pc = "loop" /\ worker'[w].pc = "get")
         => _processing_thread = w]_vars

(***************************************************************************)
(* What start_processing() and stop_processing() return, from the state    *)
(* they are called in.                                                     *)
(***************************************************************************)
start_processing_returns == ~_processing_active
stop_processing_returns == _processing_active

(***************************************************************************)
(* C13: a start_processing call that returns False (already running) and a *)
(* stop_processing call that returns False (not running) change nothing;   *)
(* a start that returns True sets the flag and starts one new worker       *)
(* thread, a stop that returns True clears the flag and forgets the        *)
(* thread, and neither touches the queue or the result cache.              *)
(***************************************************************************)
C13_StartStopIdempotent ==
  [][/\ (start_processing /\ ~start_processing_returns) => UNCHANGED vars
     /\ (stop_processing /\ ~stop_processing_returns) => UNCHANGED vars
     /\ (start_processing /\ start_processing_returns)
          => /\ ~_processing_active /\ _processing_active'
             /\ _processing_thread' \in Threads
             /\ worker[_processing_thread'].pc \in {"none", "done"}
             /\ worker'[_processing_thread'].pc = "loop"
             /\ \A w \in Threads \ {_processing_thread'} : worker'[w] = worker[w]
             /\ UNCHANGED <<task_queue, _results_cache>>
     /\ (stop_processing /\ stop_processing_returns)
          => /\ _processing_active /\ ~_processing_active'
             /\ _processing_thread' = None
             /\ UNCHANGED <<task_queue, _results_cache, worker>>]_vars

\* stopped after work was done, with work left: a second stop is a no-op
C13_Witness ==
  /\ ~_processing_active
  /\ _processing_thread = None
  /\ \E w \in Threads : worker[w].pc = "done"
  /\ task_queue # <<>>
  /\ _results_cache # <<>>

(***************************************************************************)
(* C14: once stop_task_polling has cleared the polling flag, the worker    *)
(* begins no handler invocation: a handler is called only while the flag   *)
(* is set.                                                                 *)
(***************************************************************************)
C14_NoDispatchAfterStop ==
  [][\A p \in PollThreads :
       (poller[p].pc = "handle" /\ poller'[p].pc = "handler")
         => _polling_active]_vars

(***************************************************************************)
(* SpecShutdown: the client driven as main.py drives it.  Startup:         *)
(* update_status("on"), register_task_handler, start_task_polling.         *)
(* Shutdown: stop_task_polling(), update_status("off"), and main returns,  *)
(* which ends the daemon polling thread with the process.  Where the main  *)
(* thread is in this sequence is read off the client's state.              *)
(***************************************************************************)
PollerNeverStarted == \A p \in PollThreads : poller[p].pc = "none"

\* fb.update_status("on")
MainStatusOn ==
  /\ device_status = Absent
  /\ update_status("on", TRUE)

\* fb.register_task_handler("command", handle_command)
MainRegister ==
  /\ device_status = "on" /\ PollerNeverStarted
  /\ "command" \notin _task_handlers
  /\ register_task_handler("command")

\* fb.start_task_polling(interval=30, default_handler=handle_default_task)
MainStartPolling ==
  /\ device_status = "on" /\ PollerNeverStarted
  /\ "command" \in _task_handlers
  /\ start_task_polling("handle_default_task", OnePoller)

\* fb.stop_task_polling()
MainStopPolling ==
  /\ _polling_active
  /\ stop_task_polling

\* fb.update_status("off")
MainStatusOff ==
  /\ ~PollerNeverStarted /\ ~_polling_active
  /\ update_status("off", TRUE)

\* main() returns and the interpreter exits: the daemon thread ends with it
MainExit ==
  /\ ~PollerNeverStarted /\ ~_polling_active
  /\ device_status = "off"
  /\ \E p \in PollThreads : poller[p].pc \notin {"none", "done"}
  /\ poller' = [p \in PollThreads |->
                  IF poller[p].pc = "none" THEN poller[p]
                  ELSE [IdlePoller EXCEPT !.pc = "done"]]
  /\ UNCHANGED <<device_status, device_tasks, completed_tasks, _polling_active,
                 _polling_thread, _default_handler, _task_handlers, nextTaskId,
                 dispatches>>
  /\ UNCHANGED <<tpvars, callvars, appvars>>

NextShutdown ==
  \/ MainStatusOn
  \/ MainRegister
  \/ MainStartPolling
  \/ \E task_type \in RemoteTypes : add_task_to_computer(task_type)
  \/ PollStep
  \/ MainStopPolling
  \/ MainStatusOff
  \/ MainExit

SpecShutdown == Init /\ [][NextShutdown]_vars

(***************************************************************************)
(* C15: once stop_task_polling() and update_status("off") have returned,   *)
(* the device's status is "off" and stays "off": no later step of this     *)
(* process writes another status.                                          *)
(***************************************************************************)
C15_ShutdownLeavesOff ==
  [][(device_status = "off" /\ ~_polling_active) => device_status' = "off"]_vars

(***************************************************************************)
(* Functions checked on their own.  SpecCalls applies each of them to      *)
(* every argument of a bounded set and records the call in the variable    *)
(* call.                                                                   *)
(***************************************************************************)

(***************************************************************************)
(* src/api/firebase.py, update_status: the payload of the PUT.             *)
(***************************************************************************)
\* self.descriptor = config.get("DESCRIPTOR"): unset, set to the empty
\* string, or set to a text
Descriptors == {None, "", "office desktop"}

\* {".sv": "timestamp"}
ServerTimestamp == "{.sv: timestamp}"
\* the empty JSON object {}
EmptyMap == "{}"

\* Python truthiness of an optional string
Truthy(x) == x \notin {None, ""}

\* update_status with "tasks": {} whatever the status
update_status_data_tasks_always(status, descriptor) ==
  [status |-> status,
   last_seen |-> ServerTimestamp,
   tasks |-> EmptyMap,
   descriptor |-> IF Truthy(descriptor) THEN descriptor ELSE Absent]

\* update_status: the dict data it sends (a key that is not set is Absent)
update_status_data(status, descriptor) ==
  [status |-> status,
   last_seen |-> ServerTimestamp,
   tasks |-> IF status = "on" THEN EmptyMap ELSE None,
   descriptor |-> IF Truthy(descriptor) THEN descriptor ELSE Absent]

CallUpdateStatus ==
  /\ \E status \in {"on", "off"}, descriptor \in Descriptors :
       call' = [op |-> "update_status", status |-> status,
                descriptor |-> descriptor,
                data |-> update_status_data(status, descriptor)]
  /\ UNCHANGED <<tpvars, fbvars, appvars>>

(***************************************************************************)
(* src/api/firebase.py, complete_task, on a database of two devices.  The  *)
(* database is its set of leaves (path, value); DELETE removes the node at *)
(* a path, PUT replaces it.                                                *)
(***************************************************************************)
\* self.computer_name, and another device of the same database
computer_name == "this-pc"
other_computer == "other-pc"
\* task ids and a handler result
DbTaskIds == {"t1", "t2"}
Results == {None, "result R"}

IsPrefix(p, q) == Len(p) <= Len(q) /\ SubSeq(q, 1, Len(p)) = p

Leaf(path, value) == [path |-> path, value |-> value]

\* the databases complete_task is called on: the tasks pending on each
\* device and the tasks of this device that already have a completed record
DbOf(mine, theirs, done) ==
  {Leaf(<<"devices", computer_name, "status">>, "on"),
   Leaf(<<"devices", other_computer, "status">>, "on")}
  \cup {Leaf(<<"devices", computer_name, "tasks", t>>, "task data") : t \in mine}
  \cup {Leaf(<<"devices", other_computer, "tasks", t>>, "task data") : t \in theirs}
  \cup {Leaf(<<"completed_tasks", computer_name, t, "result">>, "old result") :
          t \in done}
  \cup {Leaf(<<"completed_tasks", computer_name, t, "completed_at">>, ServerTimestamp) :
          t \in done}

\* _make_request("DELETE", endpoint) and _make_request("PUT", endpoint, data)
\* as the database applies them
DbDelete(db, endpoint) == {l \in db : ~IsPrefix(endpoint, l.path)}
DbPut(db, endpoint, data) ==
  DbDelete(db, endpoint)
    \cup {Leaf(endpoint \o <<"result">>, data.result),
          Leaf(endpoint \o <<"completed_at">>, data.completed_at)}

\* a DELETE of the whole tasks map
TaskEndpoint_whole_map(device, task_id) == <<"devices", device, "tasks">>

\* f"devices/{self.computer_name}/tasks/{task_id}"
TaskEndpoint(device, task_id) == <<"devices", device, "tasks", task_id>>
\* f"completed_tasks/{self.computer_name}/{task_id}"
CompletedEndpoint(device, task_id) == <<"completed_tasks", device, task_id>>

NoData == [result |-> None, completed_at |-> None]

\* complete_task(task_id, result): the requests it makes, in order, the
\* database after them, and whether FirebaseError left it
complete_task(db, task_id, result, okDelete, okPut) ==
  LET del == [method |-> "DELETE",
              endpoint |-> TaskEndpoint(computer_name, task_id),
              data |-> NoData]
      put == [method |-> "PUT",
              endpoint |-> CompletedEndpoint(computer_name, task_id),
              data |-> [result |-> result, completed_at |-> ServerTimestamp]]
  IN IF ~okDelete
       THEN [db |-> db, requests |-> <<del>>, raised |-> TRUE]
     ELSE IF result = None
       THEN [db |-> DbDelete(db, del.endpoint), requests |-> <<del>>,
             raised |-> FALSE]
     ELSE IF ~okPut
       THEN [db |-> DbDelete(db, del.endpoint), requests |-> <<del, put>>,
             raised |-> TRUE]
     ELSE [db |-> DbPut(DbDelete(db, del.endpoint), put.endpoint, put.data),
           requests |-> <<del, put>>, raised |-> FALSE]

CallCompleteTask ==
  /\ \E mine \in SUBSET DbTaskIds, theirs \in SUBSET {"t1"}, done \in SUBSET {"t1"},
        task_id \in DbTaskIds, result \in Results, okDelete, okPut \in BOOLEAN :
       LET before == DbOf(mine, theirs, done)
           out == complete_task(before, task_id, result, okDelete, okPut)
       IN call' = [op |-> "complete_task", before |-> before, task_id |-> task_id,
                   result |-> result, okDelete |-> okDelete, okPut |-> okPut,
                   after |-> out.db, requests |-> out.requests,
                   raised |-> out.raised]
  /\ UNCHANGED <<tpvars, fbvars, appvars>>

(***************************************************************************)
(* src/tasks/types.py: the Task Schema Registry, by task name.             *)
(***************************************************************************)
AVAILABLE_TASKS ==
  <<"send_message", "open_app", "check_email", "send_email", "get_info",
    "run_command", "check_website", "use_cursor", "add_task_to_computer">>

\* TASK_DEFINITIONS: the tool names offered to the model
TASK_DEFINITIONS == {AVAILABLE_TASKS[i] : i \in DOMAIN AVAILABLE_TASKS}

\* the GUI enqueues a tool call under the tool's name; the processor looks
\* its handler up
CallGetHandler ==
  /\ \E function_name \in TASK_DEFINITIONS :
       call' = [op |-> "get_handler_for_task_type", task_type |-> function_name,
                handler |-> get_handler_for_task_type(function_name)]
  /\ UNCHANGED <<tpvars, fbvars, appvars>>

(***************************************************************************)
(* src/tasks/handlers.py: the handlers' treatment of task_data["params"].  *)
(* A Python string is the sequence of its tokens: a plain word is one      *)
(* token, the empty string none, and a JSON text its braces, keys, colons, *)
(* values and commas.  A dict is a function from its keys to strings.      *)
(***************************************************************************)
\* the words the strings are made of; the second starts with "http"
Words == {"Notepad", "http://site"}
HttpWords == {"http://site"}
\* the strings a parameter can have as its value: empty or one word
StrValues == {<<>>} \cup {<<w>> : w \in Words}
\* what dict.get returns for a key the dict does not have
NoneStr == <<None>>

\* a params value, with its Python type
PyNone == [type |-> "NoneType", s |-> <<>>, d |-> <<>>]
PyStr(s) == [type |-> "str", s |-> s, d |-> <<>>]
PyDict(d) == [type |-> "dict", s |-> <<>>, d |-> d]

\* params.get(key)
DictGet(d, key) == IF key \in DOMAIN d THEN d[key] ELSE NoneStr
\* "not value" for a string or None
Falsy(value) == value \in {NoneStr, <<>>}

\* the order in which an encoder writes the keys
KeyOrder == <<"app_name", "command", "url", "context", "message", "person">>

StrToken(value) == IF value = <<>> THEN "" ELSE value[1]
TokenStr(token) == IF token = "" THEN <<>> ELSE <<token>>

\* json.dumps of a dict of strings: the text a caller sends for it
json_dumps(d) ==
  LET ks == SelectSeq(KeyOrder, LAMBDA k : k \in DOMAIN d)
      n == Len(ks)
  IN IF n = 0 THEN <<"{", "}">>
     ELSE [j \in 1..(4 * n + 1) |->
             IF j = 1 THEN "{"
             ELSE IF j = 4 * n + 1 THEN "}"
             ELSE LET i == ((j - 2) \div 4) + 1
                      r == (j - 2) % 4
                  IN CASE r = 0 -> ks[i]
                       [] r = 1 -> ":"
                       [] r = 2 -> StrToken(d[ks[i]])
                       [] r = 3 -> ","]

Punctuation == {"{", "}", ":", ","}

\* json.loads(text): the dict a JSON object text denotes; ok is FALSE for
\* json.JSONDecodeError
json_loads(text) ==
  LET n == (Len(text) - 1) \div 4
      wellformed ==
        \/ text = <<"{", "}">>
        \/ /\ Len(text) >= 5 /\ (Len(text) - 1) % 4 = 0
           /\ text[1] = "{" /\ text[Len(text)] = "}"
           /\ \A i \in 1..n :
                /\ text[4 * i - 2] \notin Punctuation
                /\ text[4 * i - 1] = ":"
                /\ text[4 * i] \notin Punctuation
                /\ i < n => text[4 * i + 1] = ","
      keys == {text[4 * i - 2] : i \in 1..n}
      last(k) == CHOOSE i \in 1..n :
                   /\ text[4 * i - 2] = k
                   /\ \A j \in (i + 1)..n : text[4 * j - 2] # k
  IN IF ~wellformed THEN [ok |-> FALSE, value |-> PyNone]
     ELSE IF Len(text) = 2 THEN [ok |-> TRUE, value |-> PyDict(<<>>)]
     ELSE [ok |-> TRUE,
           value |-> PyDict([k \in keys |-> TokenStr(text[4 * last(k)])])]

\* how a handler call ends: raise TaskError(f"{prefix}: {msg}"), or return
\* result after calling the automation with the arguments acted
NoError == [prefix |-> Absent, msg |-> Absent]
Raise(prefix, msg) ==
  [raised |-> TRUE, error |-> [prefix |-> prefix, msg |-> msg],
   acted |-> <<>>, result |-> {}]
Return(acted, result) ==
  [raised |-> FALSE, error |-> NoError, acted |-> acted, result |-> result]

\* "if isinstance(params, str): params = json.loads(params)", as
\* handle_send_message and handle_check_website do
ParamsDecoded(params) ==
  IF params.type = "str"
    THEN json_loads(params.s)
    ELSE [ok |-> TRUE, value |-> params]

\* handle_open_app taking a dict only
handle_open_app_dict_only(params, automation_ok) ==
  LET prefix == "Open app error"
      app_name == DictGet(params.d, "app_name")
  IN IF params.type # "dict" THEN Raise(prefix, "Invalid parameters format")
     ELSE IF Falsy(app_name)
       THEN Raise(prefix, "Missing required parameter: app_name")
     ELSE IF ~automation_ok
       THEN Raise(prefix, "Application open error")
     ELSE Return(<<app_name>>, {<<"app_opened", app_name>>})

\* handle_open_app; automation_ok: open_app(app_name) does not raise
handle_open_app(params, automation_ok) ==
  LET prefix == "Open app error"
      open(app_name) ==
        IF Falsy(app_name)
          THEN Raise(prefix, "Missing required parameter: app_name")
        ELSE IF ~automation_ok
          THEN Raise(prefix, "Application open error")
        ELSE Return(<<app_name>>, {<<"app_opened", app_name>>})
  IN IF params.type = "str" THEN open(params.s)
     ELSE IF params.type = "dict" THEN open(DictGet(params.d, "app_name"))
     ELSE Raise(prefix, "Invalid parameters format")

\* handle_run_command; automation_ok: run_command(command) does not raise
handle_run_command(params, automation_ok) ==
  LET prefix == "Command execution error"
      run(command) ==
        IF Falsy(command)
          THEN Raise(prefix, "Missing required parameter: command")
        ELSE IF ~automation_ok
          THEN Raise(prefix, "automation error")
        ELSE Return(<<command>>, {<<"command", command>>})
  IN IF params.type = "str" THEN run(params.s)
     ELSE IF params.type = "dict" THEN run(DictGet(params.d, "command"))
     ELSE Raise(prefix, "Invalid parameters format")

\* handle_check_website; automation_ok: fetch_webpage_content and the
\* summary call do not raise
handle_check_website(params, automation_ok) ==
  LET prefix == "Website check error"
      decoded == ParamsDecoded(params)
      url == DictGet(decoded.value.d, "url")
      full_url == IF url[1] \in HttpWords THEN url ELSE <<"https://">> \o url
  IN IF ~decoded.ok THEN Raise(prefix, "Invalid parameters format")
     ELSE IF decoded.value.type # "dict"
       THEN Raise(prefix, "'NoneType' object has no attribute 'get'")
     ELSE IF Falsy(url) THEN Raise(prefix, "Missing required parameter: url")
     ELSE IF ~automation_ok THEN Raise(prefix, "automation error")
     ELSE Return(<<full_url>>, {<<"url", full_url>>})

\* handle_send_message; automation_ok: focus_application("Teams") finds
\* the window
handle_send_message(params, automation_ok) ==
  LET prefix == "Send message error"
      decoded == ParamsDecoded(params)
      message == DictGet(decoded.value.d, "message")
      person == DictGet(decoded.value.d, "person")
  IN IF ~decoded.ok THEN Raise(prefix, "Invalid parameters format")
     ELSE IF decoded.value.type # "dict"
       THEN Raise(prefix, "'NoneType' object has no attribute 'get'")
     ELSE IF Falsy(message) \/ Falsy(person)
       THEN Raise(prefix, "Missing required parameters: message or person")
     ELSE IF ~automation_ok
       THEN Raise(prefix, "Failed to focus Teams application")
     ELSE Return(<<person, message>>,
                 {<<"status", <<"sent">>>>, <<"recipient", person>>})

\* the handlers modelled, and the keys each reads
Handlers == {"open_app", "run_command", "check_website", "send_message"}
HandlerKeys(handler) ==
  CASE handler = "open_app" -> {"app_name"}
    [] handler = "run_command" -> {"command"}
    [] handler = "check_website" -> {"url", "context"}
    [] handler = "send_message" -> {"message", "person"}

\* TASK_HANDLERS[handler](task_id, {"params": params})
Handle(handler, params, automation_ok) ==
  CASE handler = "open_app" -> handle_open_app(params, automation_ok)
    [] handler = "run_command" -> handle_run_command(params, automation_ok)
    [] handler = "check_website" -> handle_check_website(params, automation_ok)
    [] handler = "send_message" -> handle_send_message(params, automation_ok)

\* the params a task reaches a handler with: none, a dict over the
\* handler's keys, the JSON text of such a dict, a plain string, or a
\* string that is neither
Dicts(keys) == UNION {[ks -> StrValues] : ks \in SUBSET keys}
ParamsOf(handler) ==
  {PyNone}
    \cup {PyDict(d) : d \in Dicts(HandlerKeys(handler))}
    \cup {PyStr(json_dumps(d)) : d \in Dicts(HandlerKeys(handler))}
    \cup {PyStr(s) : s \in StrValues}
    \cup {PyStr(<<"{">>)}

CallHandler ==
  /\ \E handler \in Handlers, automation_ok \in BOOLEAN :
       \E params \in ParamsOf(handler) :
         call' = [op |-> "handler", handler |-> handler, params |-> params,
                  automation_ok |-> automation_ok,
                  outcome |-> Handle(handler, params, automation_ok)]
  /\ UNCHANGED <<tpvars, fbvars, appvars>>

NextCalls ==
  \/ CallUpdateStatus
  \/ CallCompleteTask
  \/ CallGetHandler
  \/ CallHandler

SpecCalls == Init /\ [][NextCalls]_vars

(***************************************************************************)
(* C16: the payload of update_status has the status it was given and a     *)
(* server-timestamp last_seen; its tasks field is the empty map for "on"   *)
(* and no-value for "off"; and it has a descriptor, the configured one,    *)
(* exactly when a (non-empty) descriptor is configured.                    *)
(***************************************************************************)
C16_StatusPayload ==
  call.op = "update_status" =>
    /\ call.data.status = call.status
    /\ call.data.last_seen = ServerTimestamp
    /\ call.status = "on" => call.data.tasks = EmptyMap
    /\ call.status = "off" => call.data.tasks = None
    /\ call.descriptor \in {None, ""} => call.data.descriptor = Absent
    /\ call.descriptor \notin {None, ""} => call.data.descriptor = call.descriptor

\* the "off" payload of a device with a descriptor
C16_Witness ==
  /\ call.op = "update_status"
  /\ call.status = "off"
  /\ call.descriptor = "office desktop"
  /\ call.data.tasks = None

(***************************************************************************)
(* C17: complete_task(id, result) first sends the DELETE of                *)
(* devices/{self}/tasks/{id}, then, exactly when a result is given, the    *)
(* PUT of completed_tasks/{self}/{id} = {result, completed_at}.  After     *)
(* them the task is gone, the completed record is the one written (or, if  *)
(* none was written, what it was), and every other leaf of the database    *)
(* (the other pending tasks, the other devices) is what it was.            *)
(***************************************************************************)
C17_CompleteTaskEffect ==
  call.op = "complete_task" =>
    LET task == <<"devices", "this-pc", "tasks", call.task_id>>
        record == <<"completed_tasks", "this-pc", call.task_id>>
        Under(db, path) == {l \in db : IsPrefix(path, l.path)}
        written == call.okDelete /\ call.result # None
    IN /\ call.requests[1].method = "DELETE"
       /\ call.requests[1].endpoint = task
       /\ Len(call.requests) = IF written THEN 2 ELSE 1
       /\ written =>
            /\ call.requests[2].method = "PUT"
            /\ call.requests[2].endpoint = record
            /\ call.requests[2].data =
                 [result |-> call.result, completed_at |-> ServerTimestamp]
       /\ call.okDelete => Under(call.after, task) = {}
       /\ ~call.okDelete => call.after = call.before
       /\ (written /\ call.okPut) =>
            Under(call.after, record) =
              {Leaf(record \o <<"result">>, call.result),
               Leaf(record \o <<"completed_at">>, ServerTimestamp)}
       /\ ~(written /\ call.okPut) =>
            Under(call.after, record) = Under(call.before, record)
       /\ \A l \in call.before \cup call.after :
            (~IsPrefix(task, l.path) /\ ~IsPrefix(record, l.path))
              => (l \in call.before <=> l \in call.after)
       /\ call.raised <=> (~call.okDelete \/ (written /\ ~call.okPut))

\* a task completed with a result while another task is pending on this
\* device and one on the other device
C17_Witness ==
  /\ call.op = "complete_task"
  /\ call.okDelete /\ call.okPut /\ call.result # None
  /\ call.task_id = "t1"
  /\ Leaf(<<"devices", "this-pc", "tasks", "t1">>, "task data") \in call.before
  /\ Leaf(<<"devices", "this-pc", "tasks", "t2">>, "task data") \in call.after
  /\ Leaf(<<"devices", "other-pc", "tasks", "t1">>, "task data") \in call.after
  /\ Leaf(<<"completed_tasks", "this-pc", "t1", "result">>, "result R") \in call.after

(***************************************************************************)
(* C18: the registry's task names are unique and are exactly the dispatch  *)
(* keys of TASK_HANDLERS: every name offered as a tool resolves to a       *)
(* handler, and every dispatch key is a registry name.                     *)
(***************************************************************************)
C18_RegistryMatchesDispatch ==
  /\ call.op = "get_handler_for_task_type" => call.handler # None
  /\ TASK_HANDLERS \subseteq TASK_DEFINITIONS
  /\ Cardinality(TASK_DEFINITIONS) = Len(AVAILABLE_TASKS)

MainKey(handler) ==
  CASE handler = "open_app" -> "app_name"
    [] handler = "run_command" -> "command"
    [] handler = "check_website" -> "url"
    [] handler = "send_message" -> "message"

EquivalentDict(handler, text) ==
  IF json_loads(text).ok THEN json_loads(text).value.d
  ELSE [k \in {MainKey(handler)} |-> text]

C20_ParamForms ==
  (call.op = "handler" /\ call.params.type = "str" /\ call.automation_ok) =>
    call.outcome =
      Handle(call.handler, PyDict(EquivalentDict(call.handler, call.params.s)),
             call.automation_ok)

(***************************************************************************)
(* C27: each fetched task takes exactly one branch: the registered         *)
(* handler if its type has one, else the default handler if one was given, *)
(* else the rejection, which calls no handler.  The branch then makes its  *)
(* complete_task call for that task, and when the requests of that call    *)
(* succeed the poller leaves the task without another.                     *)
(***************************************************************************)
C27_DispatchPrecedence ==
  [][\A p \in PollThreads :
       /\ (poller[p].pc = "handle" /\ poller'[p] # poller[p]) =>
            LET task == Head(poller[p].rest)
            IN /\ poller'[p].cur = task
               /\ task.type \in _task_handlers =>
                    poller'[p].branch = "registered" /\ poller'[p].pc = "handler"
               /\ (task.type \notin _task_handlers /\ _default_handler # None) =>
                    poller'[p].branch = "default" /\ poller'[p].pc = "handler"
               /\ (task.type \notin _task_handlers /\ _default_handler = None) =>
                    poller'[p].branch = "rejected" /\ poller'[p].pc = "delete"
       /\ (poller[p].pc = "handler" /\ poller'[p] # poller[p]) =>
            /\ poller'[p].pc = "delete"
            /\ poller'[p].cur = poller[p].cur
            /\ poller'[p].branch = poller[p].branch
       /\ (poller[p].pc = "delete" /\ poller'[p].pc = "put") =>
            /\ poller'[p].cur = poller[p].cur
            /\ poller'[p].payload = poller[p].payload
       /\ (poller[p].pc = "put" /\ completed_tasks' # completed_tasks) =>
            /\ poller'[p].pc \in {"handle", "status"}
            /\ completed_tasks'[poller[p].cur.id] = poller[p].payload]_vars

\* a task of a registered type in its registered handler although a
\* default handler was given
C27_Witness ==
  \E p \in PollThreads :
    /\ poller[p].pc = "handler"
    /\ poller[p].branch = "registered"
    /\ _default_handler # None

(***************************************************************************)
(* SpecRetry: the poller started with a default handler, so that every     *)
(* _handle_task call invokes a handler; requests may fail.                 *)
(***************************************************************************)
NextRetry ==
  \/ \E task_type \in RemoteTypes : add_task_to_computer(task_type)
  \/ start_task_polling("handle_default_task", OnePoller)
  \/ stop_task_polling
  \/ PollStep

SpecRetry == Init /\ [][NextRetry]_vars

(***************************************************************************)
(* C28: a task id is handed to a handler at most once over all the poll    *)
(* cycles.                                                                 *)
(***************************************************************************)
C28_AtMostOnceDispatch == \A id \in RemoteIds : dispatches[id] <= 1

(***************************************************************************)
(* C29: a completed record of status "failed" is written only for a task   *)
(* whose handler raised.                                                   *)
(***************************************************************************)
C29_FaithfulRecords ==
  [][\A p \in PollThreads :
       (/\ poller[p].pc = "put"
        /\ completed_tasks' # completed_tasks
        /\ completed_tasks'[poller[p].cur.id].status = "failed")
         => poller[p].cause = "raised"]_vars

(***************************************************************************)
(* SpecProgress: the Task Processor with its worker threads scheduled      *)
(* fairly and every handler invocation ending.                             *)
(***************************************************************************)
WorkerFairness ==
  \A w \in Threads :
    /\ WF_vars(WorkerLoop(w) \/ WorkerGet(w) \/ WorkerGetEmpty(w))
    /\ WF_vars(\E outcome \in Outcomes : WorkerExecute(w, outcome))

\* the clock only stamps the records: it has no part in the progress
NextProgress ==
  \/ start_processing
  \/ stop_processing
  \/ AddTaskTP
  \/ WorkerStep

SpecProgress == Init /\ [][NextProgress]_vars /\ WorkerFairness

PyInt(n) == [type |-> "int", s |-> <<>>, d |-> <<>>, n |-> n]

\* the variables _load_config reads
KnownKeys ==
  {"OPENAI_API_KEY", "ANTHROPIC_API_KEY", "FIREBASE_PROJECT_ID",
   "FIREBASE_API_KEY", "DESCRIPTOR", "ASSISTANT_NAME", "ASSISTANT_ID",
   "TASK_POLL_INTERVAL"}
\* the variables the environment may define here (the others are not set)
EnvVars == {"FIREBASE_PROJECT_ID", "FIREBASE_API_KEY", "DESCRIPTOR"}
EnvValues == {None, "", "office desktop"}
Environments == [EnvVars -> EnvValues]
\* a key _load_config does not know
OtherKey == "THEME"
\* the keys asked for
ConfigKeys == {"FIREBASE_PROJECT_ID", "DESCRIPTOR", "ASSISTANT_NAME", OtherKey}

\* os.getenv(name): the string, or None
os_getenv(env, name) ==
  IF name \in DOMAIN env /\ env[name] # None
    THEN PyStr(TokenStr(env[name])) ELSE PyNone
\* os.getenv(name, default)
os_getenv_default(env, name, default) ==
  IF os_getenv(env, name) = PyNone THEN PyStr(<<default>>)
                                   ELSE os_getenv(env, name)

\* Config._load_config: every known key gets an entry
_load_config(env) ==
  [key \in KnownKeys |->
     CASE key = "ASSISTANT_NAME" -> os_getenv_default(env, key, "CAS-E")
       [] key = "ASSISTANT_ID" ->
            os_getenv_default(env, key, "(Central Automated System - Epic)")
       [] key = "TASK_POLL_INTERVAL" -> PyInt(300)
       [] OTHER -> os_getenv(env, key)]

\* Config.get: self._config.get(key, default)
ConfigGet(_config, key, default) ==
  IF key \in DOMAIN _config THEN _config[key] ELSE default

\* Config.set: self._config[key] = value
ConfigSet(_config, key, value) ==
  [k \in DOMAIN _config \cup {key} |-> IF k = key THEN value ELSE _config[k]]

\* Config.validate_required_keys: the keys whose value is missing or empty
MissingKeys(_config, keys) ==
  {key \in keys : ConfigGet(_config, key, PyNone) \in {PyNone, PyStr(<<>>)}}

ConfigValues == {PyNone, PyStr(<<"fallback">>)}
NoSet == [key |-> None, value |-> PyNone]
ConfigSets == {NoSet} \cup [key : {"DESCRIPTOR", OtherKey},
                            value : {PyStr(<<"fallback">>)}]

\* the configuration after startup and, possibly, one set
ConfigAfter(env, set) ==
  IF set = NoSet THEN _load_config(env)
                 ELSE ConfigSet(_load_config(env), set.key, set.value)

\* config.get(key, default) on the configuration of an environment
CallConfigGet ==
  /\ \E env \in Environments, set \in ConfigSets, key \in ConfigKeys,
        default \in ConfigValues :
       call' = [op |-> "Config.get", env |-> env, set |-> set, key |-> key,
                default |-> default,
                _config |-> ConfigAfter(env, set),
                result |-> ConfigGet(ConfigAfter(env, set), key, default),
                _config_after |-> ConfigAfter(env, set)]
  /\ UNCHANGED <<tpvars, fbvars, appvars>>

\* a key is unset when nothing was stored for it: no set call named it and
\* either _load_config does not know it or it read no environment value and
\* had no default of its own
KeyUnset(env, set, key) ==
  /\ set.key # key
  /\ \/ key \notin KnownKeys
     \/ /\ key \in EnvVars
        /\ env[key] = None

(***************************************************************************)
(* C21: get(key, default) returns the caller's default exactly when the    *)
(* key is unset (a known key whose environment variable is not set         *)
(* included) and the stored value otherwise, and leaves the configuration  *)
(* as it was.                                                              *)
(***************************************************************************)
C21_GetDefault ==
  call.op = "Config.get" =>
    /\ call.result = IF KeyUnset(call.env, call.set, call.key)
                       THEN call.default
                       ELSE call._config[call.key]
    /\ call._config_after = call._config

(***************************************************************************)
(* Construction of the realtime-database client (src/api/firebase.py).     *)
(***************************************************************************)
\* the classes of src/core/exceptions.py, each with its base classes
ExceptionBases ==
  [AssistantBaseException |-> {"AssistantBaseException"},
   ConfigurationError |-> {"ConfigurationError", "AssistantBaseException"},
   FirebaseError |-> {"FirebaseError", "AssistantBaseException"}]
\* isinstance(e, cls) for an exception of class raised
IsInstance(raised, cls) ==
  raised \in DOMAIN ExceptionBases /\ cls \in ExceptionBases[raised]

RequiredKeys == {"FIREBASE_PROJECT_ID", "FIREBASE_API_KEY"}
\* the attributes __init__ assigns before, and after, the validation
AttributesRead == {"project_id", "api_key", "descriptor"}
AttributesClient == {"computer_name", "base_url", "verify_ssl",
                     "_polling_thread", "_polling_active", "_task_handlers"}

\* what Firebase() does and leaves behind
Constructed(raised, cause, requests, _initialized, attributes) ==
  [raised |-> raised, cause |-> cause, requests |-> requests,
   _initialized |-> _initialized, attributes |-> attributes]

\* Firebase.__init__ on a new instance: an exception of the try block,
\* ConfigurationError included, leaves it as a FirebaseError
FirebaseInit(_config, request_ok) ==
  IF MissingKeys(_config, RequiredKeys) # {}
    THEN Constructed("FirebaseError", "ConfigurationError", <<>>, FALSE,
                     AttributesRead)
    ELSE IF ConfigGet(_config, "DESCRIPTOR", PyNone) \in {PyNone, PyStr(<<>>)}
      THEN Constructed(None, None, <<>>, TRUE,
                       AttributesRead \cup AttributesClient)
      ELSE IF request_ok
        THEN Constructed(None, None, <<"PATCH">>, TRUE,
                         AttributesRead \cup AttributesClient)
        ELSE Constructed("FirebaseError", "FirebaseError", <<"PATCH">>, FALSE,
                         AttributesRead \cup AttributesClient)

\* Firebase() in a process with the configuration of an environment
CallFirebaseInit ==
  /\ \E env \in Environments, request_ok \in BOOLEAN :
       call' = [op |-> "Firebase", env |-> env, request_ok |-> request_ok,
                missing |-> MissingKeys(_load_config(env), RequiredKeys),
                outcome |-> FirebaseInit(_load_config(env), request_ok)]
  /\ UNCHANGED <<tpvars, fbvars, appvars>>

(***************************************************************************)
(* C22: when the project id or the API key is absent, Firebase() raises a  *)
(* ConfigurationError, makes no request, and leaves the client             *)
(* uninitialized, without the attributes polling needs.                    *)
(***************************************************************************)
C22_ConstructionFailure ==
  (call.op = "Firebase" /\ call.missing # {}) =>
    /\ IsInstance(call.outcome.raised, "ConfigurationError")
    /\ call.outcome.requests = <<>>
    /\ ~call.outcome._initialized
    /\ "_polling_active" \notin call.outcome.attributes


(***************************************************************************)
(* Browser lookups (src/automation/browser.py).  self.driver is None       *)
(* until start_browser and again after close_browser.                      *)
(***************************************************************************)
NoDriver == "None"
ChromeDriver == "webdriver.Chrome"
\* close_browser either quits the driver or logs the error quit raised
BrowserOps == {"start_browser", "close_browser", "close_browser quit raises"}
\* the wrapper's histories: never started, started, closed, ...
MaxBrowserOps == 2
BrowserHistories ==
  UNION {[1..n -> BrowserOps] : n \in 0..MaxBrowserOps}

\* self.driver after one operation
DriverAfterOp(driver, op) ==
  IF op = "start_browser" THEN ChromeDriver
  ELSE IF op = "close_browser" THEN NoDriver
  ELSE driver

\* self.driver after __init__ and a history of operations
RECURSIVE DriverAfter(_)
DriverAfter(history) ==
  IF history = <<>> THEN NoDriver
  ELSE DriverAfterOp(DriverAfter(SubSeq(history, 1, Len(history) - 1)),
                     history[Len(history)])

\* what WebDriverWait(...).until(...) and the calls after it do
LookupOutcomes == {"found", "NoSuchElementException", "TimeoutException",
                   "WebDriverException"}
Elements == {"element 1", "element 2"}

\* the result of a lookup: a value returned or an exception raised
Returned(value) == [raised |-> None, value |-> value]
Raised(exception) == [raised |-> exception, value |-> {}]

\* find_element without its last except clause: only the not-found and the
\* timeout exceptions are caught
find_element_catches_two(driver, outcome) ==
  IF driver = NoDriver THEN Raised("AutomationError")
  ELSE IF outcome = "found" THEN Returned({"element 1"})
  ELSE IF outcome = "WebDriverException" THEN Raised(outcome)
  ELSE Returned({})

\* find_element: the element, or None, as a set of at most one element
find_element(driver, outcome) ==
  IF driver = NoDriver THEN Raised("AutomationError")
  ELSE IF outcome = "found" THEN Returned({"element 1"})
  ELSE Returned({})

\* find_elements: the list of the elements, as a set
find_elements(driver, outcome) ==
  IF driver = NoDriver THEN Raised("AutomationError")
  ELSE IF outcome = "found" THEN Returned(Elements)
  ELSE Returned({})

CallFindElement ==
  /\ \E history \in BrowserHistories, outcome \in LookupOutcomes :
       call' = [op |-> "find_element", history |-> history,
                driver |-> DriverAfter(history), outcome |-> outcome,
                result |-> find_element(DriverAfter(history), outcome)]
  /\ UNCHANGED <<tpvars, fbvars, appvars>>

CallFindElements ==
  /\ \E history \in BrowserHistories, outcome \in LookupOutcomes :
       call' = [op |-> "find_elements", history |-> history,
                driver |-> DriverAfter(history), outcome |-> outcome,
                result |-> find_elements(DriverAfter(history), outcome)]
  /\ UNCHANGED <<tpvars, fbvars, appvars>>

(***************************************************************************)
(* C24: in every state of the wrapper and for every lookup outcome,        *)
(* find_element and find_elements return (an element or nothing, a         *)
(* possibly empty list) and raise nothing.                                 *)
(***************************************************************************)
C24_LookupsNeverRaise ==
  call.op \in {"find_element", "find_elements"} =>
    call.result.raised = None

\* C24 as amended: with a driver (the browser started and not closed since)
\* find_element returns the element when it is found and nothing otherwise,
\* find_elements returns the elements found or the empty list, and neither
\* raises, whatever the lookup does; without a driver (never started, or
\* closed) both raise AutomationError.
C24_LookupsWithDriver ==
  call.op \in {"find_element", "find_elements"} =>
    IF call.driver = NoDriver
      THEN call.result = [raised |-> "AutomationError", value |-> {}]
      ELSE /\ call.result.raised = None
           /\ call.outcome # "found" => call.result.value = {}
           /\ call.outcome = "found" =>
                call.result.value = IF call.op = "find_element"
                                      THEN {"element 1"} ELSE Elements

\* a lookup that fails with another exception, after a start
C24_Witness ==
  /\ call.op = "find_element"
  /\ call.history = <<"start_browser">>
  /\ call.outcome = "WebDriverException"
  /\ call.result = [raised |-> None, value |-> {}]


(***************************************************************************)
(* Application startup (src/main.py, module level, then main()).  The      *)
(* import of functions constructs a client too (src/functions.py:16).      *)
(***************************************************************************)
\* Firebase(): it returns, or the exception caught in __init__ is raised
\* again
ConstructOutcomes == {"ok", "ValueError", "RequestException"}
\* a request: its response's status is 200 or not, or requests raises
RequestOutcomes == {"200", "500", "RequestException"}

\* the statements of the startup, in the order they run
StartupSteps ==
  <<"functions: fb = Firebase()", "fb = Firebase()", "fb.update_status",
    "fb.get_all_computers", "fb.register_task_handler command",
    "fb.register_task_handler open_app", "fb.start_task_polling",
    "main: AssistantGUI">>

\* the exception a statement ends with, or None
StepRaises(step, construct, status, computers) ==
  IF step \in {"functions: fb = Firebase()", "fb = Firebase()"}
       /\ construct # "ok" THEN construct
  ELSE IF step = "fb.update_status" /\ status = "RequestException"
    THEN status
  ELSE IF step = "fb.get_all_computers" /\ computers = "RequestException"
    THEN computers
  ELSE None

\* the statements that run: up to the first that raises, which nothing
\* catches
RECURSIVE StepsRun(_, _, _, _)
StepsRun(steps, construct, status, computers) ==
  IF steps = <<>> THEN <<>>
  ELSE IF StepRaises(Head(steps), construct, status, computers) # None
    THEN <<Head(steps)>>
  ELSE <<Head(steps)>> \o StepsRun(Tail(steps), construct, status, computers)

\* what the process has done when the startup ends
module_startup(construct, status, computers) ==
  LET ran == StepsRun(StartupSteps, construct, status, computers)
      last == ran[Len(ran)]
      done == {ran[i] : i \in 1..Len(ran)}
      traceback == StepRaises(last, construct, status, computers)
      completed == IF traceback = None THEN done ELSE done \ {last}
  IN [traceback |-> traceback,
      device_status |-> IF "fb.update_status" \in completed /\ status = "200"
                          THEN "on" ELSE Absent,
      _task_handlers |->
        {t \in {"command", "open_app"} :
           ("fb.register_task_handler " \o t) \in completed},
      _polling_active |-> "fb.start_task_polling" \in completed,
      gui |-> "main: AssistantGUI" \in completed]

CallStartup ==
  /\ \E construct \in ConstructOutcomes, status \in RequestOutcomes,
        computers \in RequestOutcomes :
       call' = [op |-> "startup", construct |-> construct, status |-> status,
                computers |-> computers,
                outcome |-> module_startup(construct, status, computers)]
  /\ UNCHANGED <<tpvars, fbvars, appvars>>

(***************************************************************************)
(* C26: when the construction of the client or the first                   *)
(* update_status("on") fails at startup, the application still starts its  *)
(* GUI, with no remote handler registered and no poller started.           *)
(***************************************************************************)
C26_DegradedStartup ==
  (/\ call.op = "startup"
   /\ call.construct # "ok" \/ call.status # "200"
   /\ call.computers = "200") =>
    /\ call.outcome.gui
    /\ call.outcome.traceback = None
    /\ call.outcome._task_handlers = {}
    /\ ~call.outcome._polling_active


(***************************************************************************)
(* The chat round trip of the two GUIs: AssistantGUI.process_input of      *)
(* src/main.py, and process_input with _process_input_async of             *)
(* src/ui/gui.py, which calls generate_with_function_calling.              *)
(***************************************************************************)
MaxTurns == 3
UserInputs == {"hello", "look at this"}
\* what the chat-completion client answers: a text, one tool call, or an
\* exception
ChatResponses == {"text", "tool_call", "error"}
SystemPrompt == "You are virtual assistant called ..."
ReplyText == "Hi AJ"
ToolCallName == "open_app"

\* funclist of src/funcList.py: the tools src/main.py offers
funclist ==
  {"send_message", "open_app", "check_email", "get_info", "learn_function",
   "send_email", "check_jira", "use_cursor", "check_website", "run_command",
   "add_task_to_computer"}

\* the keyword scan of src/main.py: whether a screenshot is attached
needs_image(user_input) == user_input = "look at this"

\* the user message of a request of src/main.py
UserMessage(user_input) ==
  [role |-> "user", content |-> user_input, image |-> needs_image(user_input)]

\* the n-th request: its messages and its tools
Request(n, gui, msgs, tools) ==
  [n |-> n, gui |-> gui, messages |-> msgs, tools |-> tools]

\* src/main.py process_input: messages = [system] + chat_history + [user],
\* the user turn is recorded, then the answer (the tool's name or the text)
ProcessInputMain ==
  /\ request.n < MaxTurns
  /\ \E user_input \in UserInputs, response \in ChatResponses :
       LET history == chat_history["main.py"]
           recorded == Append(history, Entry("user", user_input))
       IN /\ request' = Request(request.n + 1, "main.py",
                                <<Entry("system", SystemPrompt)>> \o history
                                  \o <<UserMessage(user_input)>>,
                                funclist)
          /\ chat_history' =
               [chat_history EXCEPT !["main.py"] =
                  CASE response = "text" ->
                         Append(recorded, Entry("assistant", ReplyText))
                    [] response = "tool_call" ->
                         Append(recorded, Entry("assistant", ToolCallName))
                    [] OTHER -> recorded]
  /\ UNCHANGED <<messages, agent>>
  /\ UNCHANGED <<tpvars, fbvars, callvars>>

\* generate_with_function_calling: the messages of its request
generate_with_function_calling(system_message, user_message) ==
  <<Entry("system", system_message), Entry("user", user_message)>>

\* src/ui/gui.py process_input and _process_input_async: display_message
\* records the user turn, the request is made, a tool call is queued with
\* add_task, and display_message records what is shown for the answer
ProcessInputGui ==
  /\ request.n < MaxTurns
  /\ \E user_input \in UserInputs, response \in ChatResponses,
        task_id \in TaskIds :
       LET recorded == Append(chat_history["ui/gui.py"],
                              Entry("user", user_input))
       IN /\ request' = Request(request.n + 1, "ui/gui.py",
                                generate_with_function_calling(SystemPrompt,
                                                               user_input),
                                TASK_DEFINITIONS)
          /\ chat_history' =
               [chat_history EXCEPT !["ui/gui.py"] =
                  CASE response = "text" ->
                         Append(recorded, Entry("assistant", ReplyText))
                    [] response = "tool_call" ->
                         Append(recorded,
                                Entry("assistant", "I'll open app for you."))
                    [] OTHER ->
                         Append(recorded,
                                Entry("assistant", "Sorry, an error occurred"))]
          /\ IF response = "tool_call"
               THEN /\ nextObj <= MaxTasks
                    /\ task_queue' =
                         QueuePut(task_queue,
                                  [priority |-> 0,
                                   task_data |-> NewTask(nextObj, task_id,
                                                         ToolCallName)])
                    /\ nextObj' = nextObj + 1
               ELSE UNCHANGED <<task_queue, nextObj>>
  /\ UNCHANGED <<_processing_active, _processing_thread, _results_cache,
                 worker, now>>
  /\ UNCHANGED <<messages, agent>>
  /\ UNCHANGED <<fbvars, callvars>>

NextChat ==
  \/ ProcessInputMain
  \/ ProcessInputGui

SpecChat == Init /\ [][NextChat]_vars

(***************************************************************************)
(* C23: on every user turn the request sent to the chat-completion client  *)
(* has, after the system prompt and in their order, every entry of the     *)
(* chat history as it was before the turn, then the new user turn, and     *)
(* offers the whole tool registry of its GUI.                              *)
(***************************************************************************)
C23_RequestCarriesHistory ==
  [][request'.n # request.n =>
       LET gui == request'.gui
           sent == request'.messages
           prior == chat_history[gui]
       IN /\ Len(sent) = Len(prior) + 2
          /\ SubSeq(sent, 2, Len(sent) - 1) = prior
          /\ sent[Len(sent)].role = "user"
          /\ request'.tools = IF gui = "main.py" THEN funclist
                                                 ELSE TASK_DEFINITIONS]_vars


(***************************************************************************)
(* The computer-use agent loop (src/learn.py).  A response of the model    *)
(* is its stop reason and its content blocks; a response that stops for    *)
(* tool use has a tool_use block.                                          *)
(***************************************************************************)
MaxModelCalls == 3
ToolUseIds == {"toolu_1", "toolu_2"}
\* "computer" is the tool process_tool_use supports
ToolNames == {"computer", "bash"}
TextBlock == [type |-> "text", id |-> None, name |-> None, text |-> "Done."]
ToolUseBlock(id, name) ==
  [type |-> "tool_use", id |-> id, name |-> name, text |-> Absent]
Blocks == {TextBlock} \cup {ToolUseBlock(id, name) : id \in ToolUseIds,
                                                     name \in ToolNames}
\* the content of a response: no block, one block or two
Contents ==
  {<<>>} \cup {<<b>> : b \in Blocks} \cup {<<a, b>> : a, b \in Blocks}
StopReasons == {"tool_use", "end_turn", "max_tokens"}
HasToolUse(content) == \E i \in DOMAIN content : content[i].type = "tool_use"
APIError == [stop_reason |-> "APIError", content |-> <<>>]
Responses ==
  {r \in [stop_reason : StopReasons, content : Contents] :
     r.stop_reason = "tool_use" => HasToolUse(r.content)}

\* a turn of the conversation
Turn(role, type, id, name, content, is_error) ==
  [role |-> role, type |-> type, id |-> id, name |-> name,
   content |-> content, is_error |-> is_error]

\* "for content in response.content: if content.type == 'tool_use'": the
\* first such block
FirstToolUse(content) ==
  content[CHOOSE i \in DOMAIN content :
            /\ content[i].type = "tool_use"
            /\ \A j \in 1..(i - 1) : content[j].type # "tool_use"]

\* process_tool_use: the screenshot taken after the action, or the error
\* result when the tool is not "computer" or the action raises
process_tool_use(tool_use, action_ok) ==
  IF tool_use.name = "computer" /\ action_ok
    THEN [content |-> "screenshot", is_error |-> FALSE]
    ELSE [content |-> "Error: ...", is_error |-> TRUE]

ToolUseTurn(tool_use) ==
  Turn("assistant", "tool_use", tool_use.id, tool_use.name, None, FALSE)

\* a tool result that names no tool use
ToolResultTurn_without_id(tool_use, tool_result) ==
  Turn("user", "tool_result", None, None, tool_result.content,
       tool_result.is_error)

ToolResultTurn(tool_use, tool_result) ==
  Turn("user", "tool_result", tool_use.id, None, tool_result.content,
       tool_result.is_error)

\* "return response.content[0].text": the text, or the message of the
\* except clause when there is no first block or it has no text
FinalText(content) ==
  IF content # <<>> /\ content[1].type = "text"
    THEN content[1].text ELSE "An error occurred: ..."

\* run_agent_loop, up to its loop: messages = [the user's request]
run_agent_loop ==
  /\ agent.pc \in {"idle", "returned"}
  /\ messages' = <<Turn("user", "text", None, None, "prime + user_input",
                        FALSE)>>
  /\ agent' = [pc |-> "call", calls |-> 0, result |-> None, response |-> APIError]
  /\ UNCHANGED <<chat_history, request>>
  /\ UNCHANGED <<tpvars, fbvars, callvars>>

\* one turn of the loop: the model is called with messages; a tool use is
\* recorded, processed and answered, anything else ends the loop
AgentIteration ==
  /\ agent.pc = "call"
  /\ agent.calls < MaxModelCalls
  /\ \E response \in Responses \cup {APIError}, action_ok \in BOOLEAN :
       IF response = APIError
         THEN /\ agent' = [pc |-> "returned", calls |-> agent.calls + 1,
                           result |-> "An error occurred: ...",
                           response |-> response]
              /\ UNCHANGED messages
       ELSE IF response.stop_reason = "tool_use"
         THEN LET content == FirstToolUse(response.content)
                  tool_result == process_tool_use(content, action_ok)
              IN /\ messages' = messages
                                  \o <<ToolUseTurn(content),
                                       ToolResultTurn(content, tool_result)>>
                 /\ agent' = [pc |-> "call", calls |-> agent.calls + 1,
                              result |-> None, response |-> response]
       ELSE /\ agent' = [pc |-> "returned", calls |-> agent.calls + 1,
                         result |-> FinalText(response.content),
                         response |-> response]
            /\ UNCHANGED messages
  /\ UNCHANGED <<chat_history, request>>
  /\ UNCHANGED <<tpvars, fbvars, callvars>>

NextAgent ==
  \/ run_agent_loop
  \/ AgentIteration

SpecAgent == Init /\ [][NextAgent]_vars

(***************************************************************************)
(* C25: a model call answered with stop reason tool use adds to the        *)
(* conversation exactly one assistant tool-use turn and, right after it,   *)
(* one user tool-result turn with the same tool-use id (the screenshot,    *)
(* or an error result), and the loop goes on; a call answered with         *)
(* another stop reason changes nothing in the conversation and ends the    *)
(* loop, which returns the text of the response; after that no call is     *)
(* made.                                                                   *)
(***************************************************************************)
C25_AgentLoop ==
  [][/\ (agent'.calls = agent.calls + 1 /\ agent'.response # APIError) =>
          LET response == agent'.response
              n == Len(messages)
          IN IF response.stop_reason = "tool_use"
               THEN /\ Len(messages') = n + 2
                    /\ SubSeq(messages', 1, n) = messages
                    /\ messages'[n + 1].role = "assistant"
                    /\ messages'[n + 1].type = "tool_use"
                    /\ messages'[n + 1].id \in ToolUseIds
                    /\ \E i \in DOMAIN response.content :
                         /\ response.content[i].type = "tool_use"
                         /\ response.content[i].id = messages'[n + 1].id
                    /\ messages'[n + 2].role = "user"
                    /\ messages'[n + 2].type = "tool_result"
                    /\ messages'[n + 2].id = messages'[n + 1].id
                    /\ \/ /\ messages'[n + 2].content = "screenshot"
                          /\ ~messages'[n + 2].is_error
                       \/ messages'[n + 2].is_error
                    /\ agent'.pc = "call"
               ELSE /\ messages' = messages
                    /\ agent'.pc = "returned"
                    /\ (response.content # <<>>
                          /\ response.content[1].type = "text")
                         => agent'.result = response.content[1].text
     /\ agent.pc = "returned" => agent'.calls # agent.calls + 1]_vars

\* after a failed action and its error result, the loop is about to call
\* the model again
C25_Witness ==
  /\ agent.pc = "call"
  /\ agent.calls = 2
  /\ Len(messages) = 5
  /\ messages[5].type = "tool_result" /\ messages[5].is_error
  /\ messages[3].type = "tool_result" /\ ~messages[3].is_error

(***************************************************************************)
(* SpecSetup: configuration, client construction, browser lookups and      *)
(* application startup, each applied to every input of its bounded sets.   *)
(***************************************************************************)
NextSetup ==
  \/ CallConfigGet
  \/ CallFirebaseInit
  \/ CallFindElement
  \/ CallFindElements
  \/ CallStartup

SpecSetup == Init /\ [][NextSetup]_vars

====
